---- MODULE Spec2Model ----
(***************************************************************************)
(* The FFmpeg download-and-install pipeline of src/auto.py:                *)
(* ensure_ffmpeg_available, download_with_ultra_speed (parallel range      *)
(* fetch), download_with_requests_simple (streaming fetch), the archive    *)
(* install step they share, the progress callback and cancel_download of   *)
(* FFmpegDownloadDialog, and the replacement of the bin directory step by   *)
(* step.                                                                   *)
(*                                                                         *)
(* Files are sequences of bytes.  The byte j of the resource served by     *)
(* mirror i is 10*i + j, so no two served bytes are equal and a shifted,   *)
(* truncated or zero-filled file differs from the resource.                *)
(***************************************************************************)
EXTENDS Integers, Sequences, FiniteSets, TLC

VARIABLES
    platform,           \* platform.system()
    mirrors,            \* behaviour of the server behind each url of get_ffmpeg_download_urls()
    parent_window,      \* ensure_ffmpeg_available(parent_window): TRUE = dialog path
    bin0,               \* <install_root>/bin when ensure_ffmpeg_available is called
    pc,                 \* position of the thread that runs the pipeline
    strategy,           \* "none" | "ultra" | "simple": the download function running
    url_index,          \* 1-based index of the url of the current loop iteration
    result,             \* "none" until the entry point returns, then "true" | "false"
    bin,                \* <install_root>/bin
    zip,                \* <install_root>/ffmpeg_temp.zip (filename)
    temp,               \* <install_root>/temp (temp_extract)
    tmpfile,            \* tempfile.NamedTemporaryFile(delete=False) of the streaming fetch
    total_size,         \* Content-Length of the current attempt
    ranges,             \* ranges of the current parallel fetch
    running,            \* indices (into ranges) of the futures not completed yet
    downloaded_chunks,  \* dict start -> chunk_data, in insertion order
    completed_size,     \* sum of the futures' results
    failed,             \* starts of the ranges whose worker returned 0 on an exception
    downloaded,         \* bytes read so far by the streaming loop
    write_buffer,       \* write_buffer of the unknown-size streaming loop
    last_read,          \* outcome of the last readinto of the streaming loop
    attempts,           \* log of the mirror attempts: [strategy, url, outcome]
    download_cancelled, \* FFmpegDownloadDialog.download_cancelled
    reported,           \* bytes-so-far of the last progress message of the current fetch
    reads_after_cancel, \* reads of the streaming loop that returned data since cancel_download
    moved,              \* bin_source of the last install step (absent: nothing was moved)
    part_total,         \* partitioning on its own: total_size
    part_ranges,        \* partitioning on its own: the ranges of part_total
    part_pc,            \* partitioning on its own: "idle" | "input" | "done"
    inst,               \* install step on its own: the two installs compared
    rep,                \* replacement of bin on its own: the steps of one replacement
    probe,              \* get_aria2_path on its own: the locations and the steps of one call
    dlg,                \* FFmpegDownloadDialog on its own: its fields, its workers, the Tk event queue
    upd                 \* AutoUpdater.apply_update on its own: the files and the steps of one call

pipeVars == <<platform, mirrors, parent_window, bin0, pc, strategy, url_index, result,
              bin, zip, temp, tmpfile, total_size, ranges, running, downloaded_chunks,
              completed_size, failed, downloaded, write_buffer, last_read, attempts,
              download_cancelled, reported, reads_after_cancel, moved>>
partVars == <<part_total, part_ranges, part_pc>>
auxVars == <<probe, dlg, upd>>
vars == <<pipeVars, partVars, inst, rep, auxVars>>

(***************************************************************************)
(* Bounds of the model.                                                    *)
(***************************************************************************)
\* Model bytes that stand for 1024 * 1024 bytes.
MiB == 1
\* Largest total_size the partitioning step is applied to.
MaxPartTotal == 200

(***************************************************************************)
(* Program constants.                                                      *)
(***************************************************************************)
MAX_CONNECTIONS == 32
CHUNK_SIZE == 2 * MiB
optimal_chunk_size == 4 * MiB
read_buffer_size == 64 * MiB

Min(a, b) == IF a < b THEN a ELSE b
Max(a, b) == IF a > b THEN a ELSE b

(***************************************************************************)
(* Partitioning step of download_with_ultra_speed.                         *)
(***************************************************************************)
RECURSIVE RangeLoop(_, _, _)
RangeLoop(i, total, chunk_size) ==
    IF i >= total THEN <<>>
    ELSE <<<<i, Min(i + chunk_size - 1, total - 1)>>>>
             \o RangeLoop(i + chunk_size, total, chunk_size)

RECURSIVE RangeLoopOverlap(_, _, _)
RangeLoopOverlap(i, total, chunk_size) ==
    IF i >= total THEN <<>>
    ELSE <<<<i, Min(i + chunk_size, total - 1)>>>>
             \o RangeLoopOverlap(i + chunk_size, total, chunk_size)

ChunkRangesOverlap(total) ==
    RangeLoopOverlap(0, total, Max(CHUNK_SIZE, total \div MAX_CONNECTIONS))

\* The ranges without the CHUNK_SIZE floor on chunk_size.
ChunkRangesNoFloor(total) ==
    RangeLoop(0, total, Max(1, total \div MAX_CONNECTIONS))

ChunkRanges(total) ==
    RangeLoop(0, total, Max(CHUNK_SIZE, total \div MAX_CONNECTIONS))

(***************************************************************************)
(* Platform, urls and the servers behind them.                             *)
(***************************************************************************)
Platforms == {"Windows", "Darwin", "Linux"}

\* len(get_ffmpeg_download_urls())
NumUrls(system) == IF system = "Windows" THEN 3 ELSE 1

\* basename of get_ffmpeg_executable()
ExecutableName(system) == IF system = "Windows" THEN "ffmpeg.exe" ELSE "ffmpeg"

TopNames == {"toolA", "toolB"}

\* Resource sizes: one that fits a single range, one that needs two ranges
\* and one that needs three.
SmallSize == CHUNK_SIZE
BigSize == CHUNK_SIZE + 1
HugeSize == 2 * CHUNK_SIZE + 1

Mirror(net, size, length, range, layout, top) ==
    [net |-> net, size |-> size, length |-> length, range |-> range,
     layout |-> layout, top |-> top]

(* The servers a url can meet.  net: "down" = urlopen raises (timeout,     *)
(* refused, non-2xx); "good" = every request is answered in full; "flaky"  *)
(* = any request may raise or end early.  length is the Content-Length     *)
(* header (0 = absent), range tells whether a Range header is honoured,    *)
(* layout and top describe the archive served.  A further kind, "stalled", *)
(* is met only in SpecLive: the connection is made and every request on it *)
(* raises (reset, socket timeout).                                         *)
MirrorKinds ==
    { Mirror("down",  BigSize,   BigSize,   TRUE,  "win",    "toolA"),
      Mirror("good",  HugeSize,  HugeSize,  TRUE,  "win",    "toolA"),
      Mirror("good",  BigSize,   BigSize,   TRUE,  "unix",   "toolB"),
      Mirror("good",  BigSize,   BigSize,   FALSE, "win",    "toolB"),
      Mirror("good",  SmallSize, SmallSize, FALSE, "unix",   "toolA"),
      Mirror("good",  BigSize,   BigSize,   TRUE,  "nobin",  "toolA"),
      Mirror("good",  SmallSize, SmallSize, TRUE,  "notop",  ""),
      Mirror("good",  SmallSize, SmallSize, TRUE,  "notzip", ""),
      Mirror("good",  SmallSize, 0,         TRUE,  "win",    "toolA"),
      Mirror("flaky", BigSize,   BigSize,   TRUE,  "win",    "toolB") }

\* The bytes mirror i serves.
Data(i, n) == [j \in 1..n |-> 10 * i + j]
Resource(i) == Data(i, mirrors[i].size)

(***************************************************************************)
(* Files and directories.                                                  *)
(***************************************************************************)
NoFile == [ex |-> FALSE, data |-> <<>>]
File(d) == [ex |-> TRUE, data |-> d]
NoDir == [ex |-> FALSE, files |-> {}]
Dir(fs) == [ex |-> TRUE, files |-> fs]
NoFolder == [ex |-> FALSE, bin |-> NoDir]
NoTemp == [ex |-> FALSE, dirs |-> [n \in TopNames |-> NoFolder]]

\* f.seek(pos); f.write(d) on a file holding f
WriteAt(f, pos, d) ==
    [j \in 1..Max(Len(f), pos + Len(d)) |->
        IF j > pos /\ j <= pos + Len(d) THEN d[j - pos]
        ELSE IF j <= Len(f) THEN f[j] ELSE 0]

\* open(filename, 'wb'); f.seek(total - 1); f.write(b'\0')
Preallocate(total) == File(WriteAt(<<>>, total - 1, <<0>>))

\* The gate never finds the executable.
is_ffmpeg_available_always(b, system) == FALSE

\* The gate looks for the bin directory only.
is_ffmpeg_available_bin_only(b, system) == b.ex

\* os.path.exists(ffmpeg_path) and os.path.isfile(ffmpeg_path)
is_ffmpeg_available_in(b, system) == b.ex /\ ExecutableName(system) \in b.files

is_ffmpeg_available == is_ffmpeg_available_in(bin, platform)

(***************************************************************************)
(* Archives and their extraction.                                          *)
(***************************************************************************)
\* What the archive of a mirror contains: a top-level folder (or none) and
\* under it a bin folder (or none).
Tree(m) ==
    [top |-> IF m.layout \in {"notop", "notzip"} THEN "" ELSE m.top,
     bin |-> CASE m.layout = "win"  -> Dir({"ffmpeg.exe"})
               [] m.layout = "unix" -> Dir({"ffmpeg"})
               [] OTHER             -> NoDir]

\* The members zip_ref.extractall may have written when it raises part way.
PartialTrees(t) ==
    {[top |-> "", bin |-> NoDir]}
    \cup (IF t.top = "" THEN {}
          ELSE {[top |-> t.top, bin |-> NoDir]}
               \cup (IF t.bin.ex
                     THEN {[top |-> t.top, bin |-> Dir(s)] : s \in SUBSET t.bin.files}
                     ELSE {}))

\* zip_ref.extractall(temp_extract): existing files are overwritten, other
\* content of temp_extract stays.
ExtractInto(tmp, t) ==
    IF t.top = "" THEN [tmp EXCEPT !.ex = TRUE]
    ELSE [ex |-> TRUE,
          dirs |-> [tmp.dirs EXCEPT ![t.top] =
                       [ex |-> TRUE,
                        bin |-> [ex |-> @.bin.ex \/ t.bin.ex,
                                 files |-> @.bin.files \cup t.bin.files]]]]

(* zipfile.ZipFile(filename) and extractall on the bytes d fetched from    *)
(* mirror i.  Bytes that are the served zip archive extract in full.  Any  *)
(* other bytes raise BadZipFile: at open (nothing written) or, the member  *)
(* checksums failing, part way through extractall.                         *)
ExtractOutcomes(tmp, d, i) ==
    IF d = Resource(i) /\ mirrors[i].layout # "notzip"
    THEN {[raised |-> FALSE, temp |-> ExtractInto(tmp, Tree(mirrors[i]))]}
    ELSE {[raised |-> TRUE, temp |-> tmp]}
         \cup (IF mirrors[i].layout = "notzip" THEN {}
               ELSE {[raised |-> TRUE, temp |-> ExtractInto(tmp, t)] :
                        t \in PartialTrees(Tree(mirrors[i]))})

\* extracted_folders: os.listdir returns the entries in arbitrary order, so
\* any folder of temp_extract can be extracted_folders[0].
FirstFolderOnlyToolA(tmp) == {n \in {"toolA"} : tmp.dirs[n].ex}

FirstFolder(tmp) == {n \in TopNames : tmp.dirs[n].ex}

\* The install step: the bin directory after
\*   if extracted_folders: ... if os.path.exists(bin_source):
\*       if os.path.exists(bin_target): shutil.rmtree(bin_target)
\*       shutil.move(bin_source, bin_target)
\* bin_source: the bin folder of extracted_folders[0] (absent when there is
\* no folder or no bin in it).
StagedBins(tmp) ==
    IF FirstFolder(tmp) = {} THEN {NoDir}
    ELSE {tmp.dirs[n].bin : n \in FirstFolder(tmp)}

MoveBin(bin_source, b) == IF bin_source.ex THEN bin_source ELSE b

InstallBin(tmp, b) == {MoveBin(bin_source, b) : bin_source \in StagedBins(tmp)}

(***************************************************************************)
(* Network outcomes.                                                       *)
(***************************************************************************)
\* urlopen(url): TRUE = a response, FALSE = an exception
ConnectOutcomes(m) ==
    CASE m.net = "down" -> {FALSE}
      [] m.net \in {"good", "stalled"} -> {TRUE}
      [] OTHER          -> {TRUE, FALSE}

\* A request on an open connection: "ok" = answered, "error" = an exception
RequestOutcomes(m) ==
    CASE m.net = "flaky"   -> {"ok", "error"}
      [] m.net = "stalled" -> {"error"}
      [] OTHER             -> {"ok"}

\* chunk_response.read() for 'Range': f'bytes={start}-{end}'.  A server that
\* ignores the header answers 200 with the full body.
ChunkResponse(i, start, end) ==
    IF mirrors[i].range THEN SubSeq(Resource(i), start + 1, end + 1)
    ELSE Resource(i)

(***************************************************************************)
(* Reassembly of the parallel fetch.                                       *)
(***************************************************************************)
ChunkKeys(chunks) == {chunks[k][1] : k \in 1..Len(chunks)}
ChunkData(chunks, start) ==
    chunks[CHOOSE k \in 1..Len(chunks) : chunks[k][1] = start][2]
MinKey(keys) == CHOOSE s \in keys : \A t \in keys : s <= t

\* for start_pos in sorted(downloaded_chunks.keys()):
\*     f.seek(start_pos); f.write(downloaded_chunks[start_pos])
RECURSIVE WriteSorted(_, _, _)
WriteSorted(f, chunks, keys) ==
    IF keys = {} THEN f
    ELSE LET s == MinKey(keys)
         IN  WriteSorted(WriteAt(f, s, ChunkData(chunks, s)), chunks,
                         keys \ {s})

\* The chunks written one after the other in the order they were stored.
RECURSIVE WriteInOrder(_, _, _)
WriteInOrder(f, chunks, pos) ==
    IF chunks = <<>> THEN f
    ELSE WriteInOrder(WriteAt(f, pos, Head(chunks)[2]), Tail(chunks),
                      pos + Len(Head(chunks)[2]))

AssembleNoSeek(f, chunks) == WriteInOrder(f, chunks, 0)

Assemble(f, chunks) == WriteSorted(f, chunks, ChunkKeys(chunks))

(***************************************************************************)
(* The pipeline.                                                           *)
(***************************************************************************)
\* "continue" in "for url_index, url in enumerate(urls)"
NextUrlSkipsOne(i) == i + 2

NextUrlSame(i) == i

NextUrl(i) == i + 1

\* The size test accepts every file.
SizeVerifiedAlways(actual_size, total) == TRUE

\* actual_size == total_size
SizeVerifiedAtLeast(actual_size, total) == actual_size >= total

SizeVerified(actual_size, total) == actual_size = total

Attempt(s, i) == [strategy |-> s, url |-> i, outcome |-> "running"]

\* The outcome of the attempt in progress is recorded in the log.
Ended(log, outcome) == [log EXCEPT ![Len(log)].outcome = outcome]

OldBins(system) ==
    {NoDir, Dir({"ffprobe"}), Dir({ExecutableName(system), "ffprobe"})}

PartIdle == part_total = 0 /\ part_ranges = <<>> /\ part_pc = "idle"
InstIdle == inst = [pc |-> "idle"]
RepIdle == rep = [pc |-> "idle"]
ProbeIdle == probe = [pc |-> "idle"]
DlgIdle == dlg = [pc |-> "idle"]
UpdIdle == upd = [pc |-> "idle"]
AuxIdle == ProbeIdle /\ DlgIdle /\ UpdIdle

\* The pipeline before ensure_ffmpeg_available is called, on one of the
\* given platforms with servers of the given kinds.
PipeInitOn(systems, kinds) ==
    /\ platform \in systems
    /\ mirrors \in [1..NumUrls(platform) -> kinds]
    /\ parent_window \in BOOLEAN
    /\ bin0 \in OldBins(platform)
    /\ bin = bin0
    /\ pc = "ensure"
    /\ strategy = "none"
    /\ url_index = 0
    /\ result = "none"
    /\ zip = NoFile
    /\ temp = NoTemp
    /\ tmpfile = NoFile
    /\ total_size = 0
    /\ ranges = <<>>
    /\ running = {}
    /\ downloaded_chunks = <<>>
    /\ completed_size = 0
    /\ failed = {}
    /\ downloaded = 0
    /\ write_buffer = <<>>
    /\ last_read = "none"
    /\ attempts = <<>>
    /\ download_cancelled = FALSE
    /\ reported = 0
    /\ reads_after_cancel = 0
    /\ moved = NoDir

Init ==
    /\ PipeInitOn(Platforms, MirrorKinds)
    /\ PartIdle
    /\ InstIdle
    /\ RepIdle
    /\ AuxIdle

fetchVars == <<total_size, ranges, running, downloaded_chunks, completed_size, failed>>
streamVars == <<downloaded, write_buffer, last_read, tmpfile>>
envVars == <<platform, mirrors, parent_window, bin0>>
otherVars == <<partVars, inst, rep, auxVars>>

\* The progress callback never raises.
progress_wrapper_never_raises == FALSE

\* progress_callback(message) raises: download_worker's progress_wrapper does
\* "if self.download_cancelled: raise Exception('Download cancelled')"; the
\* silent path passes no progress_callback.
progress_wrapper_raises == parent_window /\ download_cancelled

\* "progress_callback and (current_time - last_update) > 0.3" (0.15 and 0.2
\* in the streaming loops): whether a progress message is due.
ProgressDue == IF parent_window THEN BOOLEAN ELSE {FALSE}

\* The progress message carries the size of the last read.
ProgressBytesLast(so_far, last) == last

\* The bytes-so-far figure of a progress message: completed_size, downloaded.
ProgressBytes(so_far, last) == so_far

\* The figure the dialog shows after an iteration in which a message was due
\* or not.
NextReported(due, so_far, last) ==
    IF due /\ ~progress_wrapper_raises THEN ProgressBytes(so_far, last) ELSE reported

\* download_worker: "if not self.download_cancelled: self.dialog.after(0,
\* lambda: self.download_complete(success))"; cancel_download has set
\* self.result = False.
WorkerResult(success) == IF download_cancelled THEN result ELSE success

\* ensure_ffmpeg_available: the gate, then the dialog's worker
\* (download_with_ultra_speed) or the silent download_with_requests_simple.
ensure_ffmpeg_available ==
    /\ pc = "ensure"
    /\ IF is_ffmpeg_available
       THEN /\ result' = "true"
            /\ pc' = "done"
            /\ UNCHANGED <<strategy, url_index>>
       ELSE /\ strategy' = IF parent_window THEN "ultra" ELSE "simple"
            /\ pc' = IF parent_window THEN "ultra_connect" ELSE "simple_connect"
            /\ url_index' = 1
            /\ UNCHANGED result
    /\ UNCHANGED <<envVars, bin, zip, temp, fetchVars, streamVars, attempts,
                   download_cancelled, reported, reads_after_cancel, moved, otherVars>>

\* download_with_ultra_speed, one iteration of "for url_index, url in
\* enumerate(urls)" up to the submission of the chunk downloads.
UltraConnect ==
    /\ pc = "ultra_connect"
    /\ url_index <= NumUrls(platform)
    /\ LET m == mirrors[url_index]
           log == Append(attempts, Attempt("ultra", url_index))
       IN  IF progress_wrapper_raises
           THEN /\ url_index' = NextUrl(url_index)
                /\ attempts' = Ended(log, "cancelled")
                /\ UNCHANGED <<pc, zip, fetchVars, reported>>
           ELSE \E ok \in ConnectOutcomes(m) :
                  IF ~ok \/ m.length = 0
                  THEN /\ url_index' = NextUrl(url_index)
                       /\ attempts' = Ended(log, IF ok THEN "no_length"
                                                 ELSE "connect_failed")
                       /\ UNCHANGED <<pc, zip, fetchVars, reported>>
                  ELSE /\ total_size' = m.length
                       /\ ranges' = ChunkRanges(m.length)
                       /\ zip' = Preallocate(m.length)
                       /\ downloaded_chunks' = <<>>
                       /\ running' = 1..Len(ranges')
                       /\ completed_size' = 0
                       /\ failed' = {}
                       /\ reported' = 0
                       /\ attempts' = log
                       /\ pc' = "ultra_chunks"
                       /\ UNCHANGED url_index
    /\ UNCHANGED <<envVars, strategy, result, bin, temp, streamVars,
                   download_cancelled, reads_after_cancel, moved, otherVars>>

\* The loop over the urls is over and False is returned at once.
UltraFallbackReturnsFalse ==
    /\ pc = "ultra_connect"
    /\ url_index > NumUrls(platform)
    /\ result' = "false"
    /\ pc' = "done"
    /\ UNCHANGED <<envVars, strategy, url_index, bin, zip, temp, fetchVars, streamVars,
                   attempts, download_cancelled, reported, reads_after_cancel, moved,
                   otherVars>>

\* download_with_ultra_speed: every url failed, download_with_requests_simple
\* is called.  When its first progress_callback raises, so does the one of its
\* handler, and again in the handler of download_with_ultra_speed: the
\* exception reaches download_worker.
UltraFallback ==
    /\ pc = "ultra_connect"
    /\ url_index > NumUrls(platform)
    /\ strategy' = "simple"
    /\ IF progress_wrapper_raises
       THEN /\ pc' = "done"
            /\ UNCHANGED url_index
       ELSE /\ url_index' = 1
            /\ pc' = "simple_connect"
    /\ UNCHANGED <<envVars, result, bin, zip, temp, fetchVars, streamVars, attempts,
                   download_cancelled, reported, reads_after_cancel, moved, otherVars>>

\* download_chunk for ranges[k], and the as_completed iteration that adds
\* its result to completed_size and sends the progress message that is due;
\* an exception of progress_callback is caught in the iteration.
download_chunk(k) ==
    /\ pc = "ultra_chunks"
    /\ k \in running
    /\ running' = running \ {k}
    /\ \E o \in RequestOutcomes(mirrors[url_index]) : \E due \in ProgressDue :
         IF o = "ok"
         THEN LET chunk_data == ChunkResponse(url_index, ranges[k][1], ranges[k][2])
              IN  /\ downloaded_chunks' =
                         Append(downloaded_chunks, <<ranges[k][1], chunk_data>>)
                  /\ completed_size' = completed_size + Len(chunk_data)
                  /\ reported' = NextReported(due, completed_size', Len(chunk_data))
                  /\ UNCHANGED failed
         ELSE /\ failed' = failed \cup {ranges[k][1]}
              /\ reported' = NextReported(due, completed_size, 0)
              /\ UNCHANGED <<downloaded_chunks, completed_size>>
    /\ UNCHANGED <<envVars, pc, strategy, url_index, result, bin, zip, temp, total_size,
                   ranges, streamVars, attempts, download_cancelled, reads_after_cancel,
                   moved, otherVars>>

\* as_completed(futures, timeout=300) raises TimeoutError: the executor waits
\* for its workers and the exception ends the iteration for this url.
AsCompletedTimeout ==
    /\ pc = "ultra_chunks"
    /\ running # {}
    /\ mirrors[url_index].net = "flaky"
    /\ running' = {}
    /\ url_index' = NextUrl(url_index)
    /\ pc' = "ultra_connect"
    /\ attempts' = Ended(attempts, "timeout")
    /\ UNCHANGED <<envVars, strategy, result, bin, zip, temp, total_size, ranges,
                   downloaded_chunks, completed_size, failed, streamVars,
                   download_cancelled, reported, reads_after_cancel, moved, otherVars>>

\* download_with_ultra_speed: progress_callback("ULTRA SPEED: Assembling
\* file..."), "Write all chunks to file in correct order" and "Verify file
\* size".
UltraAssemble ==
    /\ pc = "ultra_chunks"
    /\ running = {}
    /\ IF progress_wrapper_raises
       THEN /\ pc' = "ultra_connect"
            /\ url_index' = NextUrl(url_index)
            /\ attempts' = Ended(attempts, "cancelled")
            /\ UNCHANGED zip
       ELSE /\ zip' = File(Assemble(zip.data, downloaded_chunks))
            /\ IF SizeVerified(Len(zip'.data), total_size)
               THEN /\ pc' = "ultra_extract"
                    /\ UNCHANGED <<url_index, attempts>>
               ELSE /\ pc' = "ultra_connect"
                    /\ url_index' = NextUrl(url_index)
                    /\ attempts' = Ended(attempts, "size_mismatch")
    /\ UNCHANGED <<envVars, strategy, result, bin, temp, fetchVars, streamVars,
                   download_cancelled, reported, reads_after_cancel, moved, otherVars>>

\* download_with_ultra_speed: progress_callback("COMPLETE! ..."),
\* progress_callback("Extracting FFmpeg...") and zip_ref.extractall; an
\* exception ends the iteration for this url.
UltraExtract ==
    /\ pc = "ultra_extract"
    /\ IF progress_wrapper_raises
       THEN /\ url_index' = NextUrl(url_index)
            /\ pc' = "ultra_connect"
            /\ attempts' = Ended(attempts, "cancelled")
            /\ UNCHANGED temp
       ELSE \E o \in ExtractOutcomes(temp, zip.data, url_index) :
              /\ temp' = o.temp
              /\ IF o.raised
                 THEN /\ url_index' = NextUrl(url_index)
                      /\ pc' = "ultra_connect"
                      /\ attempts' = Ended(attempts, "extract_raised")
                 ELSE /\ pc' = "ultra_install"
                      /\ UNCHANGED <<url_index, attempts>>
    /\ UNCHANGED <<envVars, strategy, result, bin, zip, fetchVars, streamVars,
                   download_cancelled, reported, reads_after_cancel, moved, otherVars>>

\* download_with_ultra_speed: the install step, "Cleanup" and return True to
\* download_worker.
UltraInstall ==
    /\ pc = "ultra_install"
    /\ \E bin_source \in StagedBins(temp) :
         /\ bin' = MoveBin(bin_source, bin)
         /\ moved' = bin_source
    /\ zip' = NoFile
    /\ temp' = NoTemp
    /\ result' = WorkerResult("true")
    /\ pc' = "done"
    /\ attempts' = Ended(attempts, "returned_true")
    /\ UNCHANGED <<envVars, strategy, url_index, fetchVars, streamVars,
                   download_cancelled, reported, reads_after_cancel, otherVars>>

\* download_with_requests_simple, one iteration of "for i, url in
\* enumerate(urls)" up to the creation of the temporary file; the handler of
\* the iteration removes filename.
SimpleConnect ==
    /\ pc = "simple_connect"
    /\ url_index <= NumUrls(platform)
    /\ LET m == mirrors[url_index]
           log == Append(attempts, Attempt("simple", url_index))
       IN  IF progress_wrapper_raises
           THEN /\ zip' = NoFile
                /\ url_index' = NextUrl(url_index)
                /\ attempts' = Ended(log, "cancelled")
                /\ UNCHANGED <<pc, total_size, streamVars, reported>>
           ELSE \E ok \in ConnectOutcomes(m) :
                  IF ~ok
                  THEN /\ zip' = NoFile
                       /\ url_index' = NextUrl(url_index)
                       /\ attempts' = Ended(log, "connect_failed")
                       /\ UNCHANGED <<pc, total_size, streamVars, reported>>
                  ELSE /\ total_size' = m.length
                       /\ downloaded' = 0
                       /\ write_buffer' = <<>>
                       /\ last_read' = "none"
                       /\ tmpfile' = IF m.length > 0 THEN Preallocate(m.length)
                                     ELSE File(<<>>)
                       /\ reported' = 0
                       /\ attempts' = log
                       /\ pc' = "simple_read"
                       /\ UNCHANGED <<url_index, zip>>
    /\ UNCHANGED <<envVars, strategy, result, bin, temp, ranges, running,
                   downloaded_chunks, completed_size, failed, download_cancelled,
                   reads_after_cancel, moved, otherVars>>

\* download_with_requests_simple: the loop over the urls is over, return False.
SimpleExhausted ==
    /\ pc = "simple_connect"
    /\ url_index > NumUrls(platform)
    /\ result' = WorkerResult("false")
    /\ pc' = "done"
    /\ UNCHANGED <<envVars, strategy, url_index, bin, zip, temp, fetchVars, streamVars,
                   attempts, download_cancelled, reported, reads_after_cancel, moved,
                   otherVars>>

\* What response.readinto(buffer) can do: "data" with 1..n bytes, "eof"
\* (0 bytes) or "error" (an exception).
ReadOutcomes(m, left) ==
    IF m.net = "stalled" THEN {<<"error", 0>>}
    ELSE {<<"data", n>> : n \in 1..Min(optimal_chunk_size, left)}
         \cup (IF m.net = "flaky" THEN {<<"eof", 0>>, <<"error", 0>>}
               ELSE IF left = 0 THEN {<<"eof", 0>>} ELSE {})

\* The reads that returned data since cancel_download, counted up to two.
ReadsAfterCancel(kind) ==
    IF download_cancelled /\ kind = "data" /\ reads_after_cancel < 2
    THEN reads_after_cancel + 1
    ELSE reads_after_cancel

\* download_with_requests_simple, total_size > 0: one iteration of
\* "while downloaded < total_size" with the progress message that is due (an
\* exception of readinto or of progress_callback is caught in the iteration)
\* and, when the loop ends, the move of the temporary file to filename.
StreamRead ==
    /\ pc = "simple_read"
    /\ total_size > 0
    /\ \E o \in ReadOutcomes(mirrors[url_index], total_size - downloaded) :
       \E due \in ProgressDue :
         /\ last_read' = o[1]
         /\ reads_after_cancel' = ReadsAfterCancel(o[1])
         /\ CASE o[1] = "data" ->
                   LET bytes == SubSeq(Resource(url_index), downloaded + 1,
                                       downloaded + o[2])
                       f == File(WriteAt(tmpfile.data, downloaded, bytes))
                   IN  /\ downloaded' = downloaded + o[2]
                       /\ reported' = NextReported(due, downloaded', o[2])
                       /\ IF downloaded' < total_size
                          THEN /\ tmpfile' = f
                               /\ UNCHANGED <<zip, pc>>
                          ELSE /\ zip' = f
                               /\ tmpfile' = NoFile
                               /\ pc' = "simple_extract"
             [] o[1] = "eof" ->
                   /\ zip' = tmpfile
                   /\ tmpfile' = NoFile
                   /\ pc' = "simple_extract"
                   /\ UNCHANGED <<downloaded, reported>>
             [] OTHER ->
                   UNCHANGED <<downloaded, tmpfile, zip, pc, reported>>
    /\ UNCHANGED <<envVars, strategy, url_index, result, bin, temp, fetchVars,
                   write_buffer, attempts, download_cancelled, moved, otherVars>>

\* download_with_requests_simple, total_size = 0: one iteration of
\* "while True" with the progress message that is due and, when the loop
\* ends, the write of the remaining buffer and the move of the temporary file
\* to filename.
StreamReadUnknown ==
    /\ pc = "simple_read"
    /\ total_size = 0
    /\ \E o \in ReadOutcomes(mirrors[url_index], mirrors[url_index].size - downloaded) :
       \E due \in ProgressDue :
         /\ last_read' = o[1]
         /\ reads_after_cancel' = ReadsAfterCancel(o[1])
         /\ CASE o[1] = "data" ->
                   LET bytes == SubSeq(Resource(url_index), downloaded + 1,
                                       downloaded + o[2])
                       buf == write_buffer \o bytes
                   IN  /\ downloaded' = downloaded + o[2]
                       /\ reported' = NextReported(due, downloaded', o[2])
                       /\ IF Len(buf) >= read_buffer_size
                          THEN /\ tmpfile' = File(tmpfile.data \o buf)
                               /\ write_buffer' = <<>>
                          ELSE /\ write_buffer' = buf
                               /\ UNCHANGED tmpfile
                       /\ UNCHANGED <<zip, pc>>
             [] o[1] = "eof" ->
                   /\ zip' = File(tmpfile.data \o write_buffer)
                   /\ tmpfile' = NoFile
                   /\ write_buffer' = <<>>
                   /\ pc' = "simple_extract"
                   /\ UNCHANGED <<downloaded, reported>>
             [] OTHER ->
                   UNCHANGED <<downloaded, write_buffer, tmpfile, zip, pc, reported>>
    /\ UNCHANGED <<envVars, strategy, url_index, result, bin, temp, fetchVars,
                   attempts, download_cancelled, moved, otherVars>>

\* download_with_requests_simple: progress_callback("Extracting FFmpeg...")
\* and zip_ref.extractall; an exception removes filename and ends the
\* iteration for this url.
SimpleExtract ==
    /\ pc = "simple_extract"
    /\ IF progress_wrapper_raises
       THEN /\ zip' = NoFile
            /\ url_index' = NextUrl(url_index)
            /\ pc' = "simple_connect"
            /\ attempts' = Ended(attempts, "cancelled")
            /\ UNCHANGED temp
       ELSE \E o \in ExtractOutcomes(temp, zip.data, url_index) :
              /\ temp' = o.temp
              /\ IF o.raised
                 THEN /\ zip' = NoFile
                      /\ url_index' = NextUrl(url_index)
                      /\ pc' = "simple_connect"
                      /\ attempts' = Ended(attempts, "extract_raised")
                 ELSE /\ pc' = "simple_install"
                      /\ UNCHANGED <<zip, url_index, attempts>>
    /\ UNCHANGED <<envVars, strategy, result, bin, fetchVars, streamVars,
                   download_cancelled, reported, reads_after_cancel, moved, otherVars>>

\* download_with_requests_simple: the install step, the removal of
\* temp_extract and filename, progress_callback("FFmpeg installed
\* successfully!") and return True; an exception of the callback ends the
\* iteration for this url.
SimpleInstall ==
    /\ pc = "simple_install"
    /\ \E bin_source \in StagedBins(temp) :
         /\ bin' = MoveBin(bin_source, bin)
         /\ moved' = bin_source
    /\ temp' = NoTemp
    /\ zip' = NoFile
    /\ IF progress_wrapper_raises
       THEN /\ url_index' = NextUrl(url_index)
            /\ pc' = "simple_connect"
            /\ attempts' = Ended(attempts, "cancelled")
            /\ UNCHANGED result
       ELSE /\ result' = WorkerResult("true")
            /\ pc' = "done"
            /\ attempts' = Ended(attempts, "returned_true")
            /\ UNCHANGED url_index
    /\ UNCHANGED <<envVars, strategy, fetchVars, streamVars, download_cancelled,
                   reported, reads_after_cancel, otherVars>>

\* cancel_download (the Cancel button or the close box of the dialog, on the
\* main thread while download_worker runs): the dialog is destroyed and
\* download_ffmpeg returns self.result = False.
cancel_download ==
    /\ parent_window
    /\ pc \notin {"ensure", "done", "idle"}
    /\ ~download_cancelled
    /\ download_cancelled' = TRUE
    /\ result' = "false"
    /\ UNCHANGED <<envVars, pc, strategy, url_index, bin, zip, temp, fetchVars,
                   streamVars, attempts, reported, reads_after_cancel, moved, otherVars>>

Next ==
    \/ ensure_ffmpeg_available
    \/ UltraConnect
    \/ UltraFallback
    \/ \E k \in running : download_chunk(k)
    \/ AsCompletedTimeout
    \/ UltraAssemble
    \/ UltraExtract
    \/ UltraInstall
    \/ SimpleConnect
    \/ SimpleExhausted
    \/ StreamRead
    \/ StreamReadUnknown
    \/ SimpleExtract
    \/ SimpleInstall

Spec == Init /\ [][Next]_vars

\* The dialog path with a user who may press Cancel, from an install root
\* whose bin directory lacks the executable.
CancelInit == Init /\ parent_window /\ bin0 = Dir({"ffprobe"})

CancelNext == Next \/ cancel_download

SpecCancel == CancelInit /\ [][CancelNext]_vars

(***************************************************************************)
(* The partitioning step on its own, for every total_size up to            *)
(* MaxPartTotal.                                                           *)
(***************************************************************************)
PipeIdle ==
    /\ platform = "Windows"
    /\ mirrors = <<>>
    /\ parent_window = FALSE
    /\ bin0 = NoDir
    /\ bin = NoDir
    /\ pc = "idle"
    /\ strategy = "none"
    /\ url_index = 0
    /\ result = "none"
    /\ zip = NoFile
    /\ temp = NoTemp
    /\ tmpfile = NoFile
    /\ total_size = 0
    /\ ranges = <<>>
    /\ running = {}
    /\ downloaded_chunks = <<>>
    /\ completed_size = 0
    /\ failed = {}
    /\ downloaded = 0
    /\ write_buffer = <<>>
    /\ last_read = "none"
    /\ attempts = <<>>
    /\ download_cancelled = FALSE
    /\ reported = 0
    /\ reads_after_cancel = 0
    /\ moved = NoDir

PartInit ==
    /\ PipeIdle
    /\ InstIdle
    /\ RepIdle
    /\ AuxIdle
    /\ part_total \in 1..MaxPartTotal
    /\ part_ranges = <<>>
    /\ part_pc = "input"

Partition ==
    /\ part_pc = "input"
    /\ part_ranges' = ChunkRanges(part_total)
    /\ part_pc' = "done"
    /\ UNCHANGED <<pipeVars, part_total, inst, rep, auxVars>>

PartNext == Partition

SpecPartition == PartInit /\ [][PartNext]_vars

(***************************************************************************)
(* Properties.                                                             *)
(***************************************************************************)
\* The gate on the bin directory the entry point was called with.
AvailableAtCall == bin0.ex /\ ExecutableName(platform) \in bin0.files

Returned(r) == pc = "done" /\ result = r

LastAttempt == attempts[Len(attempts)]

\* C1: whenever the entry point has returned true, <install_root>/bin/<executable>
\* exists (is_ffmpeg_available is true at that moment).
C1_TrueImpliesAvailable == Returned("true") => is_ffmpeg_available

\* C2: when the dependency is installed at the call, the entry point returns
\* true at once: no mirror is attempted, no strategy is started and nothing
\* under the install root is created, changed or removed.
C2_InstalledSkipsPipeline ==
    AvailableAtCall =>
        /\ pc \in {"ensure", "done"}
        /\ pc = "done" => result = "true"
        /\ strategy = "none"
        /\ attempts = <<>>
        /\ bin = bin0
        /\ zip = NoFile
        /\ temp = NoTemp
        /\ tmpfile = NoFile

C2_Witness == AvailableAtCall /\ Returned("true")

\* C3: an archive of the parallel fetch is handed to extraction only when no
\* segment fetch of that mirror attempt failed.
C3_FailedSegmentNotExtracted == pc = "ultra_extract" => failed = {}

\* C4: for every total_length > 0 the ranges cover [0, total_length) exactly
\* once: the first starts at 0, each next one starts at the previous end + 1,
\* none is empty and the last ends at total_length - 1.
C4_RangesCoverExactlyOnce ==
    part_pc = "done" =>
        /\ Len(part_ranges) >= 1
        /\ part_ranges[1][1] = 0
        /\ \A k \in 1..Len(part_ranges) : part_ranges[k][1] <= part_ranges[k][2]
        /\ \A k \in 1..(Len(part_ranges) - 1) :
              part_ranges[k + 1][1] = part_ranges[k][2] + 1
        /\ part_ranges[Len(part_ranges)][2] = part_total - 1

C4_Witness == part_pc = "done" /\ Len(part_ranges) > MAX_CONNECTIONS

\* C5: when every segment worker stored exactly the bytes of its range, the
\* assembled file equals the served resource, whatever the order in which the
\* workers stored their results.
C5_ReassemblyIsIdentity ==
    /\ (pc = "ultra_extract" /\ mirrors[url_index].range /\ failed = {})
          => zip.data = Resource(url_index)
    /\ \A j \in 1..Len(attempts) :
          (attempts[j].strategy = "ultra" /\ mirrors[attempts[j].url].range)
             => attempts[j].outcome # "size_mismatch"

\* Three segments were stored with the last range first and the file is assembled.
C5_Witness ==
    /\ pc = "ultra_extract"
    /\ failed = {}
    /\ mirrors[url_index].range
    /\ Len(downloaded_chunks) = 3
    /\ downloaded_chunks[1][1] > downloaded_chunks[2][1]
    /\ downloaded_chunks[2][1] > downloaded_chunks[3][1]

FirstStrategy == IF parent_window THEN "ultra" ELSE "simple"

\* A server that answers every request and serves a zip archive; the
\* parallel fetch also needs a Content-Length and honoured ranges.
ServesCorrectly(m, s) ==
    /\ m.net = "good"
    /\ m.layout # "notzip"
    /\ s = "ultra" => (m.length > 0 /\ m.range)

AllDownBefore(k) == \A j \in 1..(k - 1) : mirrors[j].net = "down"

\* C6: mirrors are tried in list order, each only after the one before it has
\* failed, and when the first k-1 mirrors fail to connect and the k-th serves
\* the archive correctly the run returns true after exactly k attempts.
C6_MirrorsTriedInOrder ==
    /\ \A j \in 1..Len(attempts) :
          IF j = 1
          THEN attempts[1].url = 1 /\ attempts[1].strategy = FirstStrategy
          ELSE /\ attempts[j - 1].outcome \notin {"running", "returned_true"}
               /\ \/ /\ attempts[j].strategy = attempts[j - 1].strategy
                     /\ attempts[j].url = attempts[j - 1].url + 1
                  \/ /\ attempts[j - 1].strategy = "ultra"
                     /\ attempts[j].strategy = "simple"
                     /\ attempts[j - 1].url = NumUrls(platform)
                     /\ attempts[j].url = 1
    /\ (pc = "done" /\ ~AvailableAtCall) =>
          \A k \in 1..NumUrls(platform) :
             (AllDownBefore(k) /\ ServesCorrectly(mirrors[k], FirstStrategy)) =>
                /\ result = "true"
                /\ Len(attempts) = k
                /\ attempts[k] = [strategy |-> FirstStrategy, url |-> k,
                                  outcome |-> "returned_true"]

\* Three mirrors, the first two down, the third one serving: three attempts.
C6_Witness ==
    /\ Returned("true")
    /\ NumUrls(platform) = 3
    /\ AllDownBefore(3)
    /\ ServesCorrectly(mirrors[3], FirstStrategy)
    /\ Len(attempts) = 3

AllFailed == \A j \in 1..Len(attempts) : attempts[j].outcome # "returned_true"

\* Every url was attempted by strategy s and the attempt failed.
Exhausted(s) ==
    \A i \in 1..NumUrls(platform) :
       \E j \in 1..Len(attempts) :
          /\ attempts[j].strategy = s
          /\ attempts[j].url = i
          /\ attempts[j].outcome \notin {"running", "returned_true"}

IgnoresRange(m) ==
    m.net = "good" /\ ~m.range /\ m.length > 0 /\ m.layout # "notzip"

AllIgnoreRange == \A i \in 1..NumUrls(platform) : IgnoresRange(mirrors[i])

RangeIgnoredFallsBack ==
    /\ pc # "ultra_extract"
    /\ \A j \in 1..Len(attempts) :
          attempts[j].strategy = "ultra" => attempts[j].outcome # "returned_true"
    /\ pc = "simple_extract" => zip.data = Resource(url_index)
    /\ pc = "done" => (result = "true" /\ LastAttempt.strategy = "simple")

\* C8 as claimed: when the servers ignore the Range header the parallel fetch
\* accepts no result, the run falls back to the streaming fetcher and the
\* archive extracted is byte-identical to the served resource.
C8_RangeIgnoredFallsBack_Claimed ==
    (~AvailableAtCall /\ parent_window /\ AllIgnoreRange) => RangeIgnoredFallsBack

\* C8 amended: the same, for resources larger than CHUNK_SIZE (more than one
\* range is requested).
C8_RangeIgnoredFallsBack ==
    (~AvailableAtCall /\ parent_window /\ AllIgnoreRange
        /\ \A i \in 1..NumUrls(platform) : mirrors[i].length > CHUNK_SIZE)
    => RangeIgnoredFallsBack

C8_Witness ==
    /\ Returned("true")
    /\ parent_window
    /\ NumUrls(platform) = 3
    /\ AllIgnoreRange
    /\ \A i \in 1..3 : mirrors[i].length > CHUNK_SIZE
    /\ Len(attempts) = 4
    /\ LastAttempt.strategy = "simple"

\* C9: an attempt returns true only for an archive that has a bin folder under
\* a top-level folder.
C9_NoBinIsNotSuccess ==
    \A j \in 1..Len(attempts) :
       attempts[j].outcome = "returned_true" => Tree(mirrors[attempts[j].url]).bin.ex

(***************************************************************************)
(* The install step on its own, applied to two archives that differ only   *)
(* in the name of the top-level folder, from the same install root.        *)
(***************************************************************************)
\* zip_ref.extractall(temp_extract) of a valid archive, then the install step.
InstallArchive(tmp, b, t) == InstallBin(ExtractInto(tmp, t), b)

\* temp_extract as an earlier attempt leaves it: absent, or what an
\* extraction that raised had written.
StagingStates ==
    {NoTemp} \cup {ExtractInto(NoTemp, t) : t \in UNION {PartialTrees(Tree(m)) : m \in MirrorKinds}}

InstInit ==
    /\ PipeIdle
    /\ PartIdle
    /\ RepIdle
    /\ AuxIdle
    /\ \E m \in {k \in MirrorKinds : Tree(k).top # ""} :
       \E n \in TopNames \ {m.top} :
       \E t \in StagingStates :
       \E b \in OldBins("Windows") \cup OldBins("Linux") :
          inst = [pc |-> "input", tree |-> Tree(m),
                  renamed |-> [Tree(m) EXCEPT !.top = n],
                  temp0 |-> t, old |-> b, binA |-> NoDir, binB |-> NoDir]

InstallPair ==
    /\ inst.pc = "input"
    /\ \E a \in InstallArchive(inst.temp0, inst.old, inst.tree) :
       \E b \in InstallArchive(inst.temp0, inst.old, inst.renamed) :
          inst' = [inst EXCEPT !.pc = "done", !.binA = a, !.binB = b]
    /\ UNCHANGED <<pipeVars, partVars, rep, auxVars>>

InstNext == InstallPair

SpecInstall == InstInit /\ [][InstNext]_vars

\* C10: installing two archives that differ only in the name of the top-level
\* folder yields the same bin directory.
C10_FolderNameIrrelevant == inst.pc = "done" => inst.binA = inst.binB

\* In the pipeline an extraction starts with a folder in temp_extract that an
\* earlier, failed extraction left there.
StaleStagingAtExtract ==
    /\ pc \in {"ultra_extract", "simple_extract"}
    /\ \E n \in TopNames : temp.dirs[n].ex /\ temp.dirs[n].bin.ex

(***************************************************************************)
(* The gate, the progress messages and the cleanup of an attempt.          *)
(***************************************************************************)
NothingWritten == bin = bin0 /\ zip = NoFile /\ temp = NoTemp /\ tmpfile = NoFile

\* C11: the gate finds no executable under an install root that has no
\* bin/<executable>, finds it once an install step has moved a staged bin
\* folder holding the platform's executable to <install_root>/bin, and
\* evaluating it changes nothing under the install root.
C11_GateFollowsInstall ==
    /\ ~(bin.ex /\ ExecutableName(platform) \in bin.files) => ~is_ffmpeg_available
    /\ (moved.ex /\ ExecutableName(platform) \in moved.files) => is_ffmpeg_available
    /\ attempts = <<>> => NothingWritten

\* The install root had a bin directory without the executable and the run
\* moved a staged bin folder with the executable into place.
C11_Witness ==
    /\ bin0.ex
    /\ ~AvailableAtCall
    /\ pc = "done"
    /\ moved.ex
    /\ ExecutableName(platform) \in moved.files
    /\ is_ffmpeg_available

\* C12: within one fetch (one mirror attempt, parallel or streaming) the
\* bytes-so-far figure of the progress messages never decreases.
C12_ProgressNeverDecreases ==
    [][(pc \in {"ultra_chunks", "simple_read"} /\ pc' = pc) => reported' >= reported]_vars

\* A progress message was sent and the fetch has gone on without another one.
C12_Witness ==
    /\ pc \in {"ultra_chunks", "simple_read"}
    /\ reported > 0
    /\ (completed_size > reported \/ downloaded > reported)

\* An attempt that reached the extraction has ended.
InstallAttemptEnded ==
    /\ attempts # <<>>
    /\ LastAttempt.outcome \in {"extract_raised", "returned_true"}

\* C13: once an install attempt has ended, with success or with a failure
\* such as an extraction that raised, the staging directory temp and
\* ffmpeg_temp.zip are both removed.
C13_StagingRemovedAfterAttempt ==
    InstallAttemptEnded => (zip = NoFile /\ temp = NoTemp)

(***************************************************************************)
(* Failure and cancellation.                                               *)
(***************************************************************************)
\* C14: a run that returns failure leaves <install_root>/bin exactly as it
\* was when the run started.
C14_FailureLeavesBinUntouched == Returned("false") => bin = bin0

C16_CancelLeavesNoArchive ==
    (download_cancelled /\ pc = "done") => (zip = NoFile /\ tmpfile = NoFile)

\* C17: once cancel_download has been called while the streaming fetch reads
\* the body, the read loop stops within one further iteration: at most one
\* more read returns data.
C17_StreamingStopsOnCancel == reads_after_cancel <= 1

\* C18: in the streaming fetcher a read error aborts the fetch for that
\* mirror and removes the temporary file.
C18_ReadErrorAbortsFetch ==
    last_read = "error" => (pc # "simple_read" /\ tmpfile = NoFile)

(***************************************************************************)
(* The replacement of <install_root>/bin on its own, step by step: the     *)
(* install step of the download functions (rmtree, move) and               *)
(* extract_bundled_ffmpeg (rmtree, makedirs, copy2 of each file).  Every   *)
(* state is a point at which the process can be interrupted.               *)
(***************************************************************************)
BinFiles == {"ffmpeg.exe", "ffprobe.exe", "ffplay.exe"}

\* A bin folder to install: bin_source, source_bin_folder.
NewBins == {Dir(fs) : fs \in SUBSET BinFiles \ {{}}}

RepInit ==
    /\ PipeIdle
    /\ PartIdle
    /\ InstIdle
    /\ AuxIdle
    /\ \E how \in {"move", "copy"} :
       \E old \in {NoDir} \cup NewBins :
       \E new \in NewBins :
          rep = [pc |-> IF old.ex THEN "rmtree" ELSE "removed", how |-> how,
                 old |-> old, new |-> new, bin |-> old, todo |-> {}]

\* shutil.rmtree(bin_target): the entries are unlinked one by one, then the
\* directory is removed.
Rmtree ==
    /\ rep.pc = "rmtree"
    /\ IF rep.bin.files = {}
       THEN rep' = [rep EXCEPT !.bin = NoDir, !.pc = "removed"]
       ELSE \E f \in rep.bin.files :
              rep' = [rep EXCEPT !.bin = Dir(rep.bin.files \ {f})]
    /\ UNCHANGED <<pipeVars, partVars, inst, auxVars>>

\* shutil.move(bin_source, bin_target)
Move ==
    /\ rep.pc = "removed"
    /\ rep.how = "move"
    /\ rep' = [rep EXCEPT !.bin = rep.new, !.pc = "done"]
    /\ UNCHANGED <<pipeVars, partVars, inst, auxVars>>

\* os.makedirs(target_bin_folder, exist_ok=True)
Makedirs ==
    /\ rep.pc = "removed"
    /\ rep.how = "copy"
    /\ rep' = [rep EXCEPT !.bin = Dir({}), !.todo = rep.new.files, !.pc = "copy"]
    /\ UNCHANGED <<pipeVars, partVars, inst, auxVars>>

\* One iteration of "for i, filename in enumerate(ffmpeg_files)":
\* shutil.copy2(source_file, target_file); the loop ends after the last file.
CopyFile ==
    /\ rep.pc = "copy"
    /\ \E f \in rep.todo :
         rep' = [rep EXCEPT !.bin = Dir(rep.bin.files \cup {f}),
                            !.todo = rep.todo \ {f},
                            !.pc = IF rep.todo = {f} THEN "done" ELSE "copy"]
    /\ UNCHANGED <<pipeVars, partVars, inst, auxVars>>

RepNext == Rmtree \/ Move \/ Makedirs \/ CopyFile

SpecReplace == RepInit /\ [][RepNext]_vars

\* C19: the installed bin directory is replaced as a unit: at every point at
\* which the install can be interrupted it is the complete previous install or
\* the complete new one, never absent and never partly populated.
C19_BinReplacedAsUnit ==
    rep.pc # "idle" => (rep.bin = rep.old \/ rep.bin = rep.new)

\* C20 as claimed: for every total_length the partitioning step produces
\* exactly MAX_CONNECTIONS ranges.
C20_ExactlyMaxConnectionsRanges ==
    part_pc = "done" => Len(part_ranges) = MAX_CONNECTIONS

RangeBytes(r) == r[2] - r[1] + 1

\* C20 amended: the ranges have chunk_size = max(CHUNK_SIZE, total_length //
\* MAX_CONNECTIONS) bytes each and the last one holds what is left, so there
\* are ceil(total_length / chunk_size) of them: at most MAX_CONNECTIONS up to
\* MAX_CONNECTIONS * CHUNK_SIZE bytes, at least MAX_CONNECTIONS from there on
\* and exactly MAX_CONNECTIONS then only for a multiple of MAX_CONNECTIONS.
C20_RangeCount ==
    part_pc = "done" =>
        LET n == Len(part_ranges)
            chunk_size == Max(CHUNK_SIZE, part_total \div MAX_CONNECTIONS)
        IN  /\ (n - 1) * chunk_size < part_total
            /\ part_total <= n * chunk_size
            /\ \A k \in 1..(n - 1) : RangeBytes(part_ranges[k]) = chunk_size
            /\ RangeBytes(part_ranges[n]) = part_total - (n - 1) * chunk_size
            /\ part_total <= MAX_CONNECTIONS * CHUNK_SIZE => n <= MAX_CONNECTIONS
            /\ part_total >= MAX_CONNECTIONS * CHUNK_SIZE =>
                  /\ n >= MAX_CONNECTIONS
                  /\ n = MAX_CONNECTIONS <=> part_total % MAX_CONNECTIONS = 0

\* A length that is no multiple of MAX_CONNECTIONS gets one range more, with
\* the remainder in it.
C20_Witness ==
    /\ part_pc = "done"
    /\ part_total % MAX_CONNECTIONS # 0
    /\ Len(part_ranges) = MAX_CONNECTIONS + 1
    /\ RangeBytes(part_ranges[Len(part_ranges)]) < RangeBytes(part_ranges[1])

(***************************************************************************)
(* get_aria2_path on its own, for every combination of what the four       *)
(* probes can find.                                                        *)
(***************************************************************************)
common_paths ==
    << "C:\\Program Files\\aria2\\aria2c.exe",
       "C:\\Program Files (x86)\\aria2\\aria2c.exe",
       "/usr/bin/aria2c",
       "/usr/local/bin/aria2c" >>

\* What subprocess.run(['aria2c', '--version'], ...) can do: return code 0,
\* another return code, or an exception (not found, timeout).
RunOutcomes == {"zero", "nonzero", "raises"}

\* Any run that does not raise is taken for a working aria2c.
PathProbePassesUnlessRaised(run) == run # "raises"

\* "if result.returncode == 0" inside the try
PathProbePasses(run) == run = "zero"

ProbeInit ==
    /\ PipeIdle
    /\ PartIdle
    /\ InstIdle
    /\ RepIdle
    /\ DlgIdle
    /\ UpdIdle
    /\ \E b \in BOOLEAN : \E l \in BOOLEAN : \E r \in RunOutcomes :
       \E c \in SUBSET (1..Len(common_paths)) :
          probe = [pc |-> "bundled", bundled |-> b, local |-> l, run |-> r,
                   common |-> c, k |-> 1, probed |-> <<>>, ret |-> "running"]

\* "Method 1": os.path.exists(bundled_path)
ProbeBundled ==
    /\ probe.pc = "bundled"
    /\ probe' = [probe EXCEPT !.probed = Append(@, "bundled_path"),
                              !.pc = IF probe.bundled THEN "done" ELSE "local",
                              !.ret = IF probe.bundled THEN "bundled_path" ELSE @]
    /\ UNCHANGED <<pipeVars, partVars, inst, rep, dlg, upd>>

\* "Method 2": os.path.exists(local_path), return os.path.abspath(local_path)
ProbeLocal ==
    /\ probe.pc = "local"
    /\ probe' = [probe EXCEPT !.probed = Append(@, "local_path"),
                              !.pc = IF probe.local THEN "done" ELSE "path",
                              !.ret = IF probe.local THEN "local_path" ELSE @]
    /\ UNCHANGED <<pipeVars, partVars, inst, rep, dlg, upd>>

\* "Method 3": aria2c --version; an exception is logged and the search goes on.
ProbePath ==
    /\ probe.pc = "path"
    /\ probe' = [probe EXCEPT !.probed = Append(@, "aria2c"),
                              !.pc = IF PathProbePasses(probe.run) THEN "done"
                                     ELSE "common",
                              !.ret = IF PathProbePasses(probe.run) THEN "aria2c" ELSE @]
    /\ UNCHANGED <<pipeVars, partVars, inst, rep, dlg, upd>>

\* "Method 4": one iteration of "for path in common_paths"; after the last
\* one, return None.
ProbeCommon ==
    /\ probe.pc = "common"
    /\ LET found == probe.k \in probe.common
           last == probe.k = Len(common_paths)
       IN  probe' = [probe EXCEPT !.probed = Append(@, common_paths[probe.k]),
                                 !.pc = IF found \/ last THEN "done" ELSE "common",
                                 !.k = IF found \/ last THEN @ ELSE @ + 1,
                                 !.ret = IF found THEN common_paths[probe.k]
                                         ELSE IF last THEN "None" ELSE @]
    /\ UNCHANGED <<pipeVars, partVars, inst, rep, dlg, upd>>

ProbeNext == ProbeBundled \/ ProbeLocal \/ ProbePath \/ ProbeCommon

SpecProbe == ProbeInit /\ [][ProbeNext]_vars

\* The seven locations in the order of the claim, and whether one passes.
ProbeOrder == <<"bundled_path", "local_path", "aria2c">> \o
              << "C:\\Program Files\\aria2\\aria2c.exe",
                 "C:\\Program Files (x86)\\aria2\\aria2c.exe",
                 "/usr/bin/aria2c", "/usr/local/bin/aria2c" >>

ProbePassing ==
    {j \in 1..7 : CASE j = 1 -> probe.bundled
                     [] j = 2 -> probe.local
                     [] j = 3 -> probe.run = "zero"
                     [] OTHER -> (j - 3) \in probe.common}

StrategyInit ==
    /\ PipeInitOn({"Darwin", "Linux"}, MirrorKinds)
    /\ PartIdle
    /\ InstIdle
    /\ RepIdle
    /\ DlgIdle
    /\ UpdIdle
    /\ \E b \in BOOLEAN :
          probe = [pc |-> "bundled", bundled |-> b, local |-> FALSE, run |-> "raises",
                   common |-> {}, k |-> 1, probed |-> <<>>, ret |-> "running"]

SpecStrategy == StrategyInit /\ [][Next]_vars

\* C22: with the dependency absent, the probe is consulted before any mirror
\* is contacted and the first mechanism used is the external tool when the
\* probe finds it, otherwise one of the built-in fetchers.
C22_StrategyByProbe ==
    attempts # <<>> =>
        /\ probe.pc = "done"
        /\ attempts[1].strategy =
              IF ProbePassing # {} THEN "aria2" ELSE attempts[1].strategy

(***************************************************************************)
(* Installer and fetcher, progress percentages, attempts.                  *)
(***************************************************************************)
\* C23: <install_root>/bin is changed only by the install step, after the
\* assembled file of the current mirror has passed the size test, and with no
\* segment worker of the fetch still running: reassembly, extraction and
\* install start only when every worker has finished.
C23_InstallAfterFetch ==
    /\ [][bin' # bin => (pc \in {"ultra_install", "simple_install"} /\ running = {})]_vars
    /\ [](pc \in {"ultra_extract", "ultra_install"} =>
             (running = {} /\ Len(zip.data) = total_size))

\* The parallel fetch of three segments ended and its archive was installed.
C23_Witness ==
    /\ pc = "done"
    /\ Len(attempts) > 0
    /\ LastAttempt = [strategy |-> "ultra", url |-> url_index, outcome |-> "returned_true"]
    /\ Len(ranges) = 3
    /\ bin # bin0

\* int((completed_size / total_size) * 100), int((downloaded / total_size) * 100)
Percent(so_far, total) == (so_far * 100) \div total

\* C24: whenever the total length is known, the percentage of every progress
\* message lies in [0, 100], also when more bytes were counted than the total.
C24_PercentWithinBounds ==
    (total_size > 0 /\ pc \in {"ultra_chunks", "simple_read"}) =>
        Percent(reported, total_size) \in 0..100

\* C25: an archive without a top-level folder or without a bin folder in it
\* never makes the install step delete or replace the existing bin directory.
C25_NoStagedBinKeepsBin ==
    [][(pc \in {"ultra_install", "simple_install"} /\ bin.ex
           /\ ~Tree(mirrors[url_index]).bin.ex)
          => bin' = bin]_vars

(***************************************************************************)
(* Termination: the pipeline with a thread that keeps taking steps, and    *)
(* with servers that may accept the connection and then fail every read.   *)
(***************************************************************************)
LiveMirrorKinds ==
    MirrorKinds \cup { Mirror("stalled", BigSize,   BigSize, TRUE, "win", "toolA"),
                       Mirror("stalled", SmallSize, 0,       TRUE, "win", "toolA") }

LiveInit ==
    /\ PipeInitOn({"Darwin", "Linux"}, LiveMirrorKinds)
    /\ PartIdle
    /\ InstIdle
    /\ RepIdle
    /\ AuxIdle

SpecLive == LiveInit /\ [][Next]_vars /\ WF_vars(Next)

\* C26: when every network call returns data, returns end-of-stream or
\* raises, the run eventually returns, also when the reads of the streaming
\* loop keep raising.
C26_EventuallyReturns == <>(pc = "done")

(***************************************************************************)
(* The mirrors contacted by one call.                                      *)
(***************************************************************************)
AttemptsOf(s) == {j \in 1..Len(attempts) : attempts[j].strategy = s}

\* C27: within one call of download_with_ultra_speed each mirror is attempted
\* at most once by the parallel fetcher and at most once by the streaming
\* fallback, the streaming fallback starts only after every mirror has failed
\* in the parallel fetcher, and no attempt follows one that returned success.
C27_EachMirrorOncePerFetcher ==
    parent_window =>
      /\ \A i, j \in 1..Len(attempts) :
            (i # j /\ attempts[i].strategy = attempts[j].strategy)
               => attempts[i].url # attempts[j].url
      /\ \A j \in AttemptsOf("simple") :
            \A u \in 1..NumUrls(platform) :
               \E i \in AttemptsOf("ultra") :
                  /\ i < j
                  /\ attempts[i].url = u
                  /\ attempts[i].outcome \notin {"running", "returned_true"}
      /\ \A j \in 1..Len(attempts) :
            attempts[j].outcome = "returned_true" => j = Len(attempts)

\* Three mirrors, every one failed in the parallel fetcher, the first two
\* failed in the streaming fallback and the third one served it.
C27_Witness ==
    /\ parent_window
    /\ Returned("true")
    /\ NumUrls(platform) = 3
    /\ Len(attempts) = 6
    /\ attempts[6] = [strategy |-> "simple", url |-> 3, outcome |-> "returned_true"]

(***************************************************************************)
(* FFmpegDownloadDialog: the Tk main thread (timers, button clicks, the    *)
(* callbacks the workers schedule with dialog.after) and the download      *)
(* worker threads.  The download itself is one step of a worker whose      *)
(* result is chosen freely.                                                *)
(***************************************************************************)
MaxWorkers == 3

\* start_download leaves the Retry button as it is.
RetryBtnKept(btn) == btn

\* "if hasattr(self, 'retry_btn'): self.retry_btn.configure(state="disabled")"
RetryBtnAfterStart(btn) == IF btn = "none" THEN "none" ELSE "disabled"

NewWorker == [pc |-> "download", branch |-> "try", success |-> "none"]

\* FFmpegDownloadDialog.__init__ and download_ffmpeg up to wait_window():
\* dialog.after(1000, self.start_download) is pending.
DlgInit ==
    /\ PipeIdle
    /\ PartIdle
    /\ InstIdle
    /\ RepIdle
    /\ ProbeIdle
    /\ UpdIdle
    /\ dlg = [pc |-> "waiting", is_downloading |-> FALSE,
              download_cancelled |-> FALSE, result |-> FALSE,
              retry_btn |-> "none", destroyed |-> FALSE, ret |-> "none",
              events |-> {"start_download"}, workers |-> <<>>, late |-> {}]

dlgOther == <<pipeVars, partVars, inst, rep, probe, upd>>

\* Between dialog.destroy() and "return self.result" the main thread handles
\* no event.
MainFree == ~(dlg.destroyed /\ dlg.pc = "waiting")

\* start_download
start_download(d) ==
    IF d.is_downloading
    THEN d
    ELSE [d EXCEPT !.is_downloading = TRUE,
                   !.download_cancelled = FALSE,
                   !.retry_btn = RetryBtnAfterStart(@),
                   !.workers = Append(@, NewWorker)]

\* download_failed: on a destroyed dialog progress_label.configure raises and
\* the rest of the handler is not run.
download_failed(d) ==
    IF d.destroyed
    THEN [d EXCEPT !.is_downloading = FALSE]
    ELSE [d EXCEPT !.is_downloading = FALSE, !.retry_btn = "normal"]

\* download_complete
download_complete(d, success) ==
    IF success
    THEN IF d.destroyed
         THEN [d EXCEPT !.result = TRUE]
         ELSE [d EXCEPT !.result = TRUE, !.events = @ \cup {"destroy"}]
    ELSE download_failed(d)

\* dialog.destroy(): the Tcl commands registered for the dialog are deleted,
\* the callbacks pending at that moment never run.
Destroyed(d) == [d EXCEPT !.destroyed = TRUE, !.events = {}]

\* The timer of dialog.after(1000, self.start_download) fires.
DlgTimerStart ==
    /\ dlg.pc # "idle"
    /\ MainFree
    /\ "start_download" \in dlg.events
    /\ dlg' = start_download([dlg EXCEPT !.events = @ \ {"start_download"}])
    /\ UNCHANGED dlgOther

\* The Retry button (command=self.start_download) is pressed; a disabled
\* button does not call its command.
DlgRetry ==
    /\ dlg.pc # "idle"
    /\ MainFree
    /\ ~dlg.destroyed
    /\ dlg.retry_btn = "normal"
    /\ Len(dlg.workers) < MaxWorkers
    /\ dlg' = start_download(dlg)
    /\ UNCHANGED dlgOther

\* cancel_download, from the Cancel button or the close button.
DlgCancel ==
    /\ dlg.pc # "idle"
    /\ ~dlg.destroyed
    /\ dlg' = Destroyed([dlg EXCEPT !.download_cancelled = TRUE,
                                    !.is_downloading = FALSE,
                                    !.result = FALSE])
    /\ UNCHANGED dlgOther

\* A callback scheduled by a worker runs in the main thread.
DlgCallback ==
    /\ dlg.pc # "idle"
    /\ MainFree
    /\ \E cb \in dlg.events \cap {"complete_true", "complete_false", "failed"} :
         LET d == [dlg EXCEPT !.events = @ \ {cb},
                              !.late = IF dlg.download_cancelled /\ dlg.destroyed
                                       THEN @ \cup {cb} ELSE @]
         IN  dlg' = CASE cb = "complete_true"  -> download_complete(d, TRUE)
                      [] cb = "complete_false" -> download_complete(d, FALSE)
                      [] OTHER                 -> download_failed(d)
    /\ UNCHANGED dlgOther

\* The timer of dialog.after(2000, self.dialog.destroy) fires.
DlgTimerDestroy ==
    /\ dlg.pc # "idle"
    /\ MainFree
    /\ "destroy" \in dlg.events
    /\ dlg' = Destroyed(dlg)
    /\ UNCHANGED dlgOther

\* download_ffmpeg: wait_window() returns, "return self.result".
DlgReturn ==
    /\ dlg.pc = "waiting"
    /\ dlg.destroyed
    /\ dlg' = [dlg EXCEPT !.pc = "returned",
                          !.ret = IF dlg.result THEN "true" ELSE "false"]
    /\ UNCHANGED dlgOther

\* What download_with_ultra_speed(progress_wrapper) gives the worker: true,
\* false, or the exception of progress_wrapper once the download is cancelled.
DownloadOutcomes(cancelled) ==
    {"true", "false"} \cup (IF cancelled THEN {"raised"} ELSE {})

\* dialog.after called by a worker: on a destroyed dialog the callback is
\* registered anew and runs later in the main loop of the application, or the
\* call raises (no main loop any more).
AfterOutcomes(destroyed) ==
    IF destroyed THEN {"scheduled", "raises"} ELSE {"scheduled"}

\* download_worker: "success = download_with_ultra_speed(progress_wrapper)"
WorkerDownload(w) ==
    /\ dlg.workers[w].pc = "download"
    /\ \E o \in DownloadOutcomes(dlg.download_cancelled) :
         dlg' = [dlg EXCEPT !.workers[w] =
                    IF o = "raised"
                    THEN [@ EXCEPT !.pc = "check", !.branch = "except"]
                    ELSE [@ EXCEPT !.pc = "check", !.success = o]]
    /\ UNCHANGED dlgOther

\* download_worker: "if not self.download_cancelled:", in the try block and
\* in the except block.
WorkerCheck(w) ==
    /\ dlg.workers[w].pc = "check"
    /\ dlg' = [dlg EXCEPT !.workers[w].pc =
                  IF dlg.download_cancelled THEN "finally" ELSE "schedule"]
    /\ UNCHANGED dlgOther

\* download_worker: "self.dialog.after(0, lambda: ...)", in the try block and
\* in the except block.
WorkerSchedule(w) ==
    /\ dlg.workers[w].pc = "schedule"
    /\ LET me == dlg.workers[w]
           cb == IF me.branch = "except" THEN "failed"
                 ELSE IF me.success = "true" THEN "complete_true"
                 ELSE "complete_false"
       IN  \E o \in AfterOutcomes(dlg.destroyed) :
             IF o = "scheduled"
             THEN dlg' = [dlg EXCEPT !.events = @ \cup {cb},
                                     !.workers[w].pc = "finally"]
             ELSE dlg' = [dlg EXCEPT !.workers[w] =
                             IF me.branch = "try"
                             THEN [@ EXCEPT !.pc = "check", !.branch = "except"]
                             ELSE [@ EXCEPT !.pc = "finally"]]
    /\ UNCHANGED dlgOther

\* download_worker: "finally: self.is_downloading = False"
WorkerFinally(w) ==
    /\ dlg.workers[w].pc = "finally"
    /\ dlg' = [dlg EXCEPT !.is_downloading = FALSE, !.workers[w].pc = "exit"]
    /\ UNCHANGED dlgOther

DlgNext ==
    \/ DlgTimerStart
    \/ DlgRetry
    \/ DlgCancel
    \/ DlgCallback
    \/ DlgTimerDestroy
    \/ DlgReturn
    \/ \E w \in 1..Len(dlg.workers) : WorkerDownload(w)
    \/ \E w \in 1..Len(dlg.workers) : WorkerCheck(w)
    \/ \E w \in 1..Len(dlg.workers) : WorkerSchedule(w)
    \/ \E w \in 1..Len(dlg.workers) : WorkerFinally(w)

SpecDialog == DlgInit /\ [][DlgNext]_vars

Downloading == {w \in 1..Len(dlg.workers) : dlg.workers[w].pc = "download"}

\* C28: at most one worker of a dialog is executing a download at any time,
\* and start_download starts no worker while is_downloading is set.
C28_OneWorkerDownloading ==
    /\ [](Cardinality(Downloading) <= 1)
    /\ [][Len(dlg'.workers) > Len(dlg.workers) =>
             (~dlg.is_downloading /\ Downloading = {})]_vars

\* A second worker downloads while the first one, whose failure enabled the
\* Retry button, has not yet reached its "finally".
C28_Witness ==
    /\ Len(dlg.workers) >= 2
    /\ dlg.workers[1].pc = "finally"
    /\ dlg.workers[2].pc = "download"

\* C29: once cancel_download has run, download_ffmpeg returns false, the result
\* is never true, and neither download_complete nor download_failed is invoked
\* on the cancelled dialog.
C29_CancelIsFinal ==
    (dlg.pc # "idle" /\ dlg.download_cancelled /\ dlg.destroyed) =>
        /\ dlg.ret # "true"
        /\ ~dlg.result
        /\ dlg.late = {}

(***************************************************************************)
(* AutoUpdater.apply_update (updater.py).  A file is its content, "none"   *)
(* when it does not exist and "partial" when a copy into it was cut short; *)
(* a backup file of an earlier update may be there.                        *)
(***************************************************************************)
\* shutil.copy2(src, dst): done, or raised before dst was opened (src missing,
\* dst not writable), or raised part-way.
Copy2Outcomes(src, dst) ==
    IF src = "none"
    THEN {[src |-> src, dst |-> dst, raised |-> TRUE]}
    ELSE {[src |-> src, dst |-> src,       raised |-> FALSE],
          [src |-> src, dst |-> dst,       raised |-> TRUE],
          [src |-> src, dst |-> "partial", raised |-> TRUE]}

\* shutil.move(src, dst): os.rename, else copy2 followed by os.unlink(src).
MoveOutcomes(src, dst) ==
    IF src = "none"
    THEN {[src |-> src, dst |-> dst, raised |-> TRUE]}
    ELSE {[src |-> "none", dst |-> src, raised |-> FALSE]}
         \cup {[src |-> src, dst |-> o.dst, raised |-> TRUE] :
                 o \in Copy2Outcomes(src, dst)}

UpdInit ==
    /\ PipeIdle
    /\ PartIdle
    /\ InstIdle
    /\ RepIdle
    /\ ProbeIdle
    /\ DlgIdle
    /\ \E t \in {"none", "v1", "v2"} : \E n \in {"none", "v2", "v3"} :
       \E b \in {"none", "v0", "v1", "partial"} :
          upd = [pc |-> "backup", target |-> t, new |-> n, backup |-> b,
                 orig |-> t, backed |-> FALSE, ret |-> "none"]

updOther == <<pipeVars, partVars, inst, rep, probe, dlg>>

\* backup_current_version(target_path) and "if not backup_path: return False"
UpdBackup ==
    /\ upd.pc = "backup"
    /\ \E o \in Copy2Outcomes(upd.target, upd.backup) :
         upd' = IF o.raised
                THEN [upd EXCEPT !.backup = o.dst, !.ret = "false", !.pc = "done"]
                ELSE [upd EXCEPT !.backup = o.dst, !.backed = TRUE, !.pc = "move"]
    /\ UNCHANGED updOther

\* shutil.move(new_file_path, target_path); return True
UpdMove ==
    /\ upd.pc = "move"
    /\ \E o \in MoveOutcomes(upd.new, upd.target) :
         upd' = IF o.raised
                THEN [upd EXCEPT !.new = o.src, !.target = o.dst, !.pc = "restore"]
                ELSE [upd EXCEPT !.new = o.src, !.target = o.dst,
                                 !.ret = "true", !.pc = "done"]
    /\ UNCHANGED updOther

\* The except block: shutil.move(backup_path, target_path) when the backup
\* exists, its exception passed over; return False
UpdRestore ==
    /\ upd.pc = "restore"
    /\ IF upd.backup = "none"
       THEN upd' = [upd EXCEPT !.ret = "false", !.pc = "done"]
       ELSE \E o \in MoveOutcomes(upd.backup, upd.target) :
              upd' = [upd EXCEPT !.backup = o.src, !.target = o.dst,
                                 !.ret = "false", !.pc = "done"]
    /\ UNCHANGED updOther

UpdNext == UpdBackup \/ UpdMove \/ UpdRestore

SpecUpdate == UpdInit /\ [][UpdNext]_vars

\* C30: the target is replaced only after its backup copy was made; without
\* a backup apply_update returns false with the target unchanged, and when the
\* replacement fails after the backup it returns false with the target holding
\* its original content again.
C30_BackupThenReplaceOrRestore ==
    upd.pc # "idle" =>
        /\ upd.target # upd.orig => upd.backed
        /\ (upd.pc = "done" /\ ~upd.backed) => upd.ret = "false"
        /\ (upd.pc = "done" /\ upd.ret = "false") => upd.target = upd.orig

====
